---- MODULE Spec2Model ----
(***************************************************************************)
(* JunosCollector (junos_collector.go): one Collect() call fans out one    *)
(* goroutine per configured target; each goroutine builds its own scope,   *)
(* connects, walks two label tables and six counter tables, sends one      *)
(* interface metric per counter row and finally one junos_up metric on the *)
(* shared channel; Collect() returns after wg.Wait().                      *)
(*                                                                         *)
(* The SNMP library (gosnmp) and the device are the environment: Connect   *)
(* returns nil or an error, Walk delivers any number of rows to the        *)
(* callback and returns nil or an error, and returns the callback's error  *)
(* as soon as the callback returns one.  A failed Go type assertion        *)
(* panics; an unrecovered panic runs the goroutine's deferred calls and    *)
(* terminates the process.                                                 *)
(***************************************************************************)
EXTENDS Integers, Sequences, FiniteSets

VARIABLES
    targets,          \* JunosCollector.targets
    cpc,              \* Collect(): "idle" | "wait" (in wg.Wait) | "returned"
    calls,            \* history: number of Collect() calls started
    wg,               \* sync.WaitGroup counter of the running call
    ch,               \* the metric channel handed to Collect(), a FIFO
    crashed,          \* the process died of an unrecovered panic
    rows,             \* rows the devices delivered during the running call
    pc,               \* per target entry: position of collectForTarget
    w,                \* per target entry: table being walked (0: none)
    interfaceLabels,  \* scope.interfaceLabels, row id -> <<name, description>>
    err,              \* scope.err
    conn,             \* scope.snmp.Conn: "nil" | "open" | "closed"
    setup,            \* history: outcome of Connect(): "pending" | "ok" | "failed"
    closes,           \* history: Conn.Close() calls of the running call
    connects,         \* history: Connect() calls of the running call
    walked,           \* history: tables whose Walk() was started, in order
    failed,           \* history: Connect() or some Walk() returned an error
    sent,             \* history: metrics the entry's goroutine put on ch
    consuming,        \* the caller of Collect() still receives from ch
    dpc,              \* Describe(): "idle" | "send" | "returned"
    described,        \* history: descriptors the running Describe() has sent
    tbl,              \* a label table handlePduAsLabel is applied to
    before,           \* history: tbl before the last handlePduAsLabel
    op                \* history: the last label write, [id, index, value]

vars == <<targets, cpc, calls, wg, ch, crashed, rows, pc, w, interfaceLabels,
          err, conn, setup, closes, connects, walked, failed, sent,
          consuming, dpc, described, tbl, before, op>>

scopeVars == <<interfaceLabels, err, conn>>
histVars == <<setup, closes, connects, walked, failed, sent>>
descVars == <<dpc, described>>
tabVars == <<tbl, before, op>>
collectVars == <<cpc, calls, wg, ch, crashed, rows, pc, w, scopeVars, histVars>>

(***************************************************************************)
(* Bounds of the exploration.                                              *)
(***************************************************************************)
MaxRows == 2        \* rows delivered by all devices during one Collect()
MaxCollects == 2    \* Collect() calls
ChCap == 1          \* capacity of the metric channel

(***************************************************************************)
(* Program constants.                                                      *)
(***************************************************************************)
numberOfInterfaceLabels == 2
NumTables == 8

TargetLists ==
    { <<>>, <<"10.0.0.1">>, <<"10.0.0.1", "10.0.0.2">>,
      <<"10.0.0.1", "10.0.0.1">> }

Entries == 1..Len(targets)

\* the row indices the devices use (the last component of a row's OID)
RowIds == {7, 9}

\* ifName / ifAlias strings a device at the given address reports
DeviceLabels(addr) ==
    IF addr = "10.0.0.1" THEN <<"ge-0/0/0", "uplink">>
                         ELSE <<"xe-0/0/1", "core">>

\* raw counter values a device reports
CounterValues == {8000}

upDesc == "junos_up"

\* label names of a descriptor, init()
DescLabels(desc) ==
    IF desc = upDesc THEN <<"target">>
                     ELSE <<"name", "description", "target">>

\* variant: the receive-bytes walk is called before the description walk
TablesSwapped == <<
    [oid |-> <<1,3,6,1,2,1,31,1,1,1,1>>,  kind |-> "label",  index |-> 0,
     desc |-> "",                                  conv |-> ""],
    [oid |-> <<1,3,6,1,2,1,2,2,1,10>>,    kind |-> "metric", index |-> 0,
     desc |-> "junos_interface_receive_bytes",     conv |-> "bitsToBytes"],
    [oid |-> <<1,3,6,1,2,1,31,1,1,1,18>>, kind |-> "label",  index |-> 1,
     desc |-> "",                                  conv |-> ""],
    [oid |-> <<1,3,6,1,2,1,2,2,1,16>>,    kind |-> "metric", index |-> 0,
     desc |-> "junos_interface_transmit_bytes",    conv |-> "bitsToBytes"],
    [oid |-> <<1,3,6,1,2,1,2,2,1,13>>,    kind |-> "metric", index |-> 0,
     desc |-> "junos_interface_receive_drops",     conv |-> "noConvert"],
    [oid |-> <<1,3,6,1,2,1,2,2,1,14>>,    kind |-> "metric", index |-> 0,
     desc |-> "junos_interface_receive_errors",    conv |-> "noConvert"],
    [oid |-> <<1,3,6,1,2,1,2,2,1,19>>,    kind |-> "metric", index |-> 0,
     desc |-> "junos_interface_transmit_drops",    conv |-> "noConvert"],
    [oid |-> <<1,3,6,1,2,1,2,2,1,20>>,    kind |-> "metric", index |-> 0,
     desc |-> "junos_interface_transmit_errors",   conv |-> "noConvert"] >>

\* the tables collectMetrics walks, in call order
Tables == <<
    [oid |-> <<1,3,6,1,2,1,31,1,1,1,1>>,  kind |-> "label",  index |-> 0,
     desc |-> "",                                  conv |-> ""],
    [oid |-> <<1,3,6,1,2,1,31,1,1,1,18>>, kind |-> "label",  index |-> 1,
     desc |-> "",                                  conv |-> ""],
    [oid |-> <<1,3,6,1,2,1,2,2,1,10>>,    kind |-> "metric", index |-> 0,
     desc |-> "junos_interface_receive_bytes",     conv |-> "bitsToBytes"],
    [oid |-> <<1,3,6,1,2,1,2,2,1,16>>,    kind |-> "metric", index |-> 0,
     desc |-> "junos_interface_transmit_bytes",    conv |-> "bitsToBytes"],
    [oid |-> <<1,3,6,1,2,1,2,2,1,13>>,    kind |-> "metric", index |-> 0,
     desc |-> "junos_interface_receive_drops",     conv |-> "noConvert"],
    [oid |-> <<1,3,6,1,2,1,2,2,1,14>>,    kind |-> "metric", index |-> 0,
     desc |-> "junos_interface_receive_errors",    conv |-> "noConvert"],
    [oid |-> <<1,3,6,1,2,1,2,2,1,19>>,    kind |-> "metric", index |-> 0,
     desc |-> "junos_interface_transmit_drops",    conv |-> "noConvert"],
    [oid |-> <<1,3,6,1,2,1,2,2,1,20>>,    kind |-> "metric", index |-> 0,
     desc |-> "junos_interface_transmit_errors",   conv |-> "noConvert"] >>

(***************************************************************************)
(* Values.                                                                 *)
(***************************************************************************)
\* error values: nil, the error of Connect(), the transport error of Walk(),
\* the error of NewConstMetric
NoErr == "nil"
ConnectErr == "connect: timeout"
WalkErr == "walk: request timeout"
CardinalityErr == "inconsistent label cardinality"

NoLabels == [id \in {} |-> <<>>]

\* no label write yet
NoWrite == [id |-> 0, index |-> 0, value |-> ""]

\* a PDU: the row's OID and its typed value
Pdu(k, id, type, value) ==
    [Name |-> Append(Tables[k].oid, id), Type |-> type, Value |-> value]

\* getId: the last dot-separated component of the OID
getId(oid) == oid[Len(oid)]

\* ValueConverter functions
bitsToBytes(v) == v \div 8
noConvert(v) == v
Convert(conv, v) == IF conv = "bitsToBytes" THEN bitsToBytes(v) ELSE noConvert(v)

\* make([]string, numberOfInterfaceLabels)
EmptyLabels == [i \in 1..numberOfInterfaceLabels |-> ""]

\* s.interfaceLabels[id]: the entry, or the nil slice when there is none
LookupLabels(labels, id) == IF id \in DOMAIN labels THEN labels[id] ELSE <<>>

\* prometheus.NewConstMetric: an error when the number of label values
\* differs from the number of label names of the descriptor
NewConstMetric(desc, value, labelValues) ==
    IF Len(labelValues) # Len(DescLabels(desc))
    THEN [ok |-> FALSE, m |-> [desc |-> desc, labels |-> <<>>, value |-> 0]]
    ELSE [ok |-> TRUE,  m |-> [desc |-> desc, labels |-> labelValues, value |-> value]]

\* upMetric
upMetric(value, target) == NewConstMetric(upDesc, value, <<target>>).m

\* variant: a new slice is made for the row on every call
StoreLabelFresh(labels, id, index, value) ==
    [i \in (DOMAIN labels) \cup {id} |->
        IF i = id THEN [EmptyLabels EXCEPT ![index + 1] = value] ELSE labels[i]]

\* variant: the value always goes to the first slot
StoreLabelSlot0(labels, id, index, value) ==
    LET l == IF id \in DOMAIN labels THEN labels[id] ELSE EmptyLabels
    IN  [i \in (DOMAIN labels) \cup {id} |->
            IF i = id THEN [l EXCEPT ![1] = value] ELSE labels[i]]

\* the label table after handlePduAsLabel stored value at slot index of row id
StoreLabel(labels, id, index, value) ==
    LET l == IF id \in DOMAIN labels THEN labels[id] ELSE EmptyLabels
    IN  [i \in (DOMAIN labels) \cup {id} |->
            IF i = id THEN [l EXCEPT ![index + 1] = value] ELSE labels[i]]

\* the label table after handlePduAsLabel panicked on the type assertion:
\* the entry of the row was already created
TouchLabel(labels, id) ==
    [i \in (DOMAIN labels) \cup {id} |->
        IF i \in DOMAIN labels THEN labels[i] ELSE EmptyLabels]

\* variant: only the error of Connect() is kept, a walk's error is dropped
StickyErrConnectOnly(old, new) == IF new = ConnectErr /\ old = NoErr THEN new ELSE old

\* variant: the last error is kept
StickyErrLast(old, new) == IF new # NoErr THEN new ELSE old

\* if err != nil && s.err == nil { s.err = err }
StickyErr(old, new) == IF new # NoErr /\ old = NoErr THEN new ELSE old

\* variant: junos_up is 1 whatever s.err holds
UpValueIgnoresErr(e) == 1

\* the value collectForTarget gives junos_up
UpValue(e) == IF e # NoErr THEN 0 ELSE 1

\* variant: the WaitGroup was armed for one goroutine too few
WaitReturnsEarly(n) == n <= 1

\* variant: the WaitGroup was armed for one goroutine too many
WaitReturnsLate(n) == n = -1

\* wg.Wait() returns
WaitReturns(n) == n = 0

\* variant: one scope, kept in the collector, used by every goroutine
ScopeShared(t) == 1

\* the scope the goroutine of entry t works on: its own, built by itself
ScopeOf(t) == t

\* variant: collectForTarget called without go, one target after the other
MayRunInTurn(t) == \A x \in 1..(t - 1) : pc[x] = "exited"

\* the goroutine of entry t may take a step: every entry has a goroutine of
\* its own (go c.collectForTarget), so none waits for another
MayRun(t) == TRUE

\* variant: on an error collectForTarget logs it and returns without junos_up
AfterCollectMetricsNoUp(e) == IF e # NoErr THEN "done" ELSE "up"

\* where collectForTarget continues after collectMetrics returned with s.err
\* = e: on both branches it sends junos_up
AfterCollectMetrics(e) == "up"

\* variant: the scope of an entry is kept from one Collect() to the next
NewScopeErrKept(old) == old

\* the scope built at the top of collectForTarget, whatever an earlier scope
\* of the same entry held
NewScopeLabels(old) == NoLabels
NewScopeErr(old) == NoErr

\* ch <- m can complete
CanSend == Len(ch) < ChCap

(***************************************************************************)
(* Initial state: a collector constructed by NewJunosCollector.            *)
(***************************************************************************)
Init ==
    /\ targets \in TargetLists
    /\ cpc = "idle"
    /\ calls = 0
    /\ wg = 0
    /\ ch = <<>>
    /\ crashed = FALSE
    /\ rows = 0
    /\ pc = [t \in Entries |-> "none"]
    /\ w = [t \in Entries |-> 0]
    /\ interfaceLabels = [t \in Entries |-> NoLabels]
    /\ err = [t \in Entries |-> NoErr]
    /\ conn = [t \in Entries |-> "nil"]
    /\ setup = [t \in Entries |-> "pending"]
    /\ closes = [t \in Entries |-> 0]
    /\ connects = [t \in Entries |-> 0]
    /\ walked = [t \in Entries |-> <<>>]
    /\ failed = [t \in Entries |-> FALSE]
    /\ sent = [t \in Entries |-> <<>>]
    /\ consuming = TRUE
    /\ dpc = "idle"
    /\ described = <<>>
    /\ tbl = NoLabels
    /\ before = NoLabels
    /\ op = NoWrite

(***************************************************************************)
(* Collect(): wg.Add(len(targets)), one go statement per target, then      *)
(* wg.Wait().  The caller hands in a fresh channel.  Every goroutine       *)
(* builds its scope and calls s.snmp.Connect().                            *)
(***************************************************************************)
CollectCall ==
    /\ ~crashed
    /\ cpc \in {"idle", "returned"}
    /\ calls < MaxCollects
    /\ calls' = calls + 1
    /\ cpc' = "wait"
    /\ wg' = Len(targets)
    /\ ch' = <<>>
    /\ rows' = 0
    /\ pc' = [t \in Entries |-> "connect"]
    /\ w' = [t \in Entries |-> 0]
    /\ interfaceLabels' = [t \in Entries |-> NewScopeLabels(interfaceLabels[t])]
    /\ err' = [t \in Entries |-> NewScopeErr(err[t])]
    /\ conn' = [t \in Entries |-> "nil"]
    /\ setup' = [t \in Entries |-> "pending"]
    /\ closes' = [t \in Entries |-> 0]
    /\ connects' = [t \in Entries |-> 1]
    /\ walked' = [t \in Entries |-> <<>>]
    /\ failed' = [t \in Entries |-> FALSE]
    /\ sent' = [t \in Entries |-> <<>>]
    /\ UNCHANGED <<descVars, tabVars, consuming, targets, crashed>>

\* wg.Wait() returns and so does Collect()
CollectReturn ==
    /\ ~crashed
    /\ cpc = "wait"
    /\ WaitReturns(wg)
    /\ cpc' = "returned"
    /\ UNCHANGED <<descVars, tabVars, consuming, targets, calls, wg, ch, crashed, rows, pc, w, scopeVars, histVars>>

\* the caller of Collect() receives a metric from the channel
Receive ==
    /\ ~crashed
    /\ consuming
    /\ ch # <<>>
    /\ ch' = Tail(ch)
    /\ UNCHANGED <<descVars, tabVars, consuming, targets, cpc, calls, wg, crashed, rows, pc, w, scopeVars, histVars>>

(***************************************************************************)
(* collectForTarget and collectMetrics, one goroutine per entry t.         *)
(***************************************************************************)
Running(t) == ~crashed /\ MayRun(t)

\* Connect() returned an error: s.err = err; return (there is no Conn to
\* close)
ConnectFail(t) ==
    /\ Running(t)
    /\ pc[t] = "connect"
    /\ err' = [err EXCEPT ![ScopeOf(t)] = StickyErr(@, ConnectErr)]
    /\ setup' = [setup EXCEPT ![t] = "failed"]
    /\ failed' = [failed EXCEPT ![t] = TRUE]
    /\ pc' = [pc EXCEPT ![t] = AfterCollectMetrics(err'[ScopeOf(t)])]
    /\ UNCHANGED <<descVars, tabVars, consuming, targets, cpc, calls, wg, ch, crashed, rows, w,
                   interfaceLabels, conn, closes, connects, walked, sent>>

\* Connect() returned nil: defer Conn.Close(); the first Walk() is called
ConnectOk(t) ==
    /\ Running(t)
    /\ pc[t] = "connect"
    /\ conn' = [conn EXCEPT ![t] = "open"]
    /\ setup' = [setup EXCEPT ![t] = "ok"]
    /\ pc' = [pc EXCEPT ![t] = "walk"]
    /\ w' = [w EXCEPT ![t] = 1]
    /\ walked' = [walked EXCEPT ![t] = Append(@, 1)]
    /\ UNCHANGED <<descVars, tabVars, consuming, targets, cpc, calls, wg, ch, crashed, rows,
                   interfaceLabels, err, closes, connects, failed, sent>>

\* variant: collectMetrics returns as soon as a walk has returned an error
NextTableAbort(k, e) == IF k < NumTables /\ e = NoErr THEN k + 1 ELSE 0

\* the table walked after table k returned e, 0 when k was the last one
NextTable(k, e) == IF k < NumTables THEN k + 1 ELSE 0

\* variant: Conn.Close() is called at the end of collectMetrics, not deferred
CloseConnNotDeferred(c, panicking) == IF panicking THEN c ELSE "closed"

\* variant: Conn.Close() is never called
CloseConnLeak(c, panicking) == c

\* s.snmp.Conn after the deferred Conn.Close(), which runs when collectMetrics
\* returns and when it panics
CloseConn(c, panicking) == "closed"

\* the Close() calls so far, given the connection before and after
CountClose(k, c, d) == IF c # d THEN k + 1 ELSE k

\* the walk of table w[t] returned e to fetchInterface...FromOid, which keeps
\* the first error; collectMetrics calls the next walk, or returns and runs
\* the deferred Conn.Close()
AfterWalk(t, e) ==
    LET n == NextTable(w[t], e) IN
    /\ err' = [err EXCEPT ![ScopeOf(t)] = StickyErr(@, e)]
    /\ w' = [w EXCEPT ![t] = n]
    /\ IF n # 0
       THEN /\ pc' = [pc EXCEPT ![t] = "walk"]
            /\ walked' = [walked EXCEPT ![t] = Append(@, n)]
            /\ UNCHANGED <<conn, closes>>
       ELSE /\ pc' = [pc EXCEPT ![t] = AfterCollectMetrics(err'[ScopeOf(t)])]
            /\ conn' = [conn EXCEPT ![t] = CloseConn(@, FALSE)]
            /\ closes' = [closes EXCEPT ![t] = CountClose(@, conn[t], conn'[t])]
            /\ UNCHANGED walked

\* Walk() reached the end of the table and returned nil
WalkEnd(t) ==
    /\ Running(t)
    /\ pc[t] = "walk"
    /\ AfterWalk(t, NoErr)
    /\ UNCHANGED <<descVars, tabVars, consuming, targets, cpc, calls, wg, ch, crashed, rows,
                   interfaceLabels, setup, connects, failed, sent>>

\* Walk() failed on the transport and returned an error
WalkFail(t) ==
    /\ Running(t)
    /\ pc[t] = "walk"
    /\ AfterWalk(t, WalkErr)
    /\ failed' = [failed EXCEPT ![t] = TRUE]
    /\ UNCHANGED <<descVars, tabVars, consuming, targets, cpc, calls, wg, ch, crashed, rows,
                   interfaceLabels, setup, connects, sent>>

\* an unrecovered panic in the goroutine of t: the deferred Conn.Close() and
\* wg.Done() run, then the runtime terminates the process
Panic(t) ==
    /\ crashed' = TRUE
    /\ pc' = [pc EXCEPT ![t] = "panicked"]
    /\ conn' = [conn EXCEPT ![t] = CloseConn(@, TRUE)]
    /\ closes' = [closes EXCEPT ![t] = CountClose(@, conn[t], conn'[t])]
    /\ wg' = wg - 1

\* Walk() of a label table delivers the row p: handlePduAsLabel
LabelRow(t, p) ==
    /\ Running(t)
    /\ pc[t] = "walk"
    /\ Tables[w[t]].kind = "label"
    /\ rows < MaxRows
    /\ rows' = rows + 1
    /\ LET id == getId(p.Name) IN
       IF p.Type = "OctetString"
       THEN /\ interfaceLabels' = [interfaceLabels EXCEPT
                    ![ScopeOf(t)] = StoreLabel(@, id, Tables[w[t]].index, p.Value)]
            /\ UNCHANGED <<pc, conn, closes, wg, crashed>>
       ELSE /\ interfaceLabels' = [interfaceLabels EXCEPT
                    ![ScopeOf(t)] = TouchLabel(@, id)]
            /\ Panic(t)
    /\ UNCHANGED <<descVars, tabVars, consuming, targets, cpc, calls, ch, w, err, setup, connects, walked,
                   failed, sent>>

\* Walk() of a counter table delivers the row p: handlePduAsMetric.  An error
\* of NewConstMetric is returned to Walk(), which returns it at once.
CounterRow(t, p) ==
    /\ Running(t)
    /\ pc[t] = "walk"
    /\ Tables[w[t]].kind = "metric"
    /\ rows < MaxRows
    /\ rows' = rows + 1
    /\ IF p.Type # "Counter32"
       THEN /\ Panic(t)
            /\ UNCHANGED <<ch, sent, w, err, walked, failed>>
       ELSE LET id == getId(p.Name)
                l == Append(LookupLabels(interfaceLabels[ScopeOf(t)], id), targets[t])
                r == NewConstMetric(Tables[w[t]].desc,
                                    Convert(Tables[w[t]].conv, p.Value), l)
            IN  IF r.ok
                THEN /\ CanSend
                     /\ ch' = Append(ch, r.m)
                     /\ sent' = [sent EXCEPT ![t] = Append(@, r.m)]
                     /\ UNCHANGED <<pc, w, err, conn, closes, walked, failed,
                                    wg, crashed>>
                ELSE /\ AfterWalk(t, CardinalityErr)
                     /\ failed' = [failed EXCEPT ![t] = TRUE]
                     /\ UNCHANGED <<ch, sent, wg, crashed>>
    /\ UNCHANGED <<descVars, tabVars, consuming, targets, cpc, calls, interfaceLabels, setup, connects>>

\* log.Error(s.err) when s.err != nil; ch <- c.upMetric(0 or 1, s)
SendUp(t) ==
    /\ Running(t)
    /\ pc[t] = "up"
    /\ CanSend
    /\ LET m == upMetric(UpValue(err[ScopeOf(t)]), targets[t]) IN
       /\ ch' = Append(ch, m)
       /\ sent' = [sent EXCEPT ![t] = Append(@, m)]
    /\ pc' = [pc EXCEPT ![t] = "done"]
    /\ UNCHANGED <<descVars, tabVars, consuming, targets, cpc, calls, wg, crashed, rows, w, scopeVars,
                   setup, closes, connects, walked, failed>>

\* the deferred wg.Done(); the goroutine ends
TaskExit(t) ==
    /\ Running(t)
    /\ pc[t] = "done"
    /\ wg' = wg - 1
    /\ pc' = [pc EXCEPT ![t] = "exited"]
    /\ UNCHANGED <<descVars, tabVars, consuming, targets, cpc, calls, ch, crashed, rows, w, scopeVars, histVars>>

(***************************************************************************)
(* The rows a device may deliver.                                          *)
(***************************************************************************)
\* the table the goroutine of t is walking is of the given kind
Walking(t, kind) == pc[t] = "walk" /\ Tables[w[t]].kind = kind

LabelPdus(t) ==
    IF Walking(t, "label")
    THEN { Pdu(w[t], id, "OctetString",
               DeviceLabels(targets[t])[Tables[w[t]].index + 1]) : id \in RowIds }
    ELSE {}

\* a value of another SNMP type than the rows of the table should have
BadLabelPdus(t) ==
    IF Walking(t, "label")
    THEN { Pdu(w[t], id, "Integer", 1) : id \in RowIds }
    ELSE {}

CounterPdus(t) ==
    IF Walking(t, "metric")
    THEN { Pdu(w[t], id, "Counter32", v) : id \in RowIds, v \in CounterValues }
    ELSE {}

BadCounterPdus(t) ==
    IF Walking(t, "metric")
    THEN { Pdu(w[t], id, "Counter64", v) : id \in RowIds, v \in CounterValues }
    ELSE {}

Task(t) ==
    \/ ConnectFail(t)
    \/ ConnectOk(t)
    \/ WalkEnd(t)
    \/ WalkFail(t)
    \/ \E p \in LabelPdus(t) \cup BadLabelPdus(t) : LabelRow(t, p)
    \/ \E p \in CounterPdus(t) \cup BadCounterPdus(t) : CounterRow(t, p)
    \/ SendUp(t)
    \/ TaskExit(t)

Next ==
    \/ CollectCall
    \/ CollectReturn
    \/ Receive
    \/ \E t \in Entries : Task(t)

Spec == Init /\ [][Next]_vars

(***************************************************************************)
(* Describe(): seven sends on the descriptor channel.  It reads nothing of *)
(* the collector, so it is explored next to Collect() calls whose devices  *)
(* have empty tables.                                                      *)
(***************************************************************************)
\* variant: transmitDropsDesc sent twice, transmitErrorsDesc forgotten
DescribeDescsDup ==
    << upDesc,
       "junos_interface_receive_bytes", "junos_interface_receive_errors",
       "junos_interface_receive_drops", "junos_interface_transmit_bytes",
       "junos_interface_transmit_drops", "junos_interface_transmit_drops" >>

\* the descriptors Describe() sends, in order
DescribeDescs ==
    << upDesc,
       "junos_interface_receive_bytes", "junos_interface_receive_errors",
       "junos_interface_receive_drops", "junos_interface_transmit_bytes",
       "junos_interface_transmit_drops", "junos_interface_transmit_errors" >>

DescribeCall ==
    /\ ~crashed
    /\ dpc \in {"idle", "returned"}
    /\ dpc' = "send"
    /\ described' = <<>>
    /\ UNCHANGED <<targets, collectVars, consuming, tabVars>>

\* ch <- the next descriptor
DescribeSend ==
    /\ ~crashed
    /\ dpc = "send"
    /\ Len(described) < Len(DescribeDescs)
    /\ described' = Append(described, DescribeDescs[Len(described) + 1])
    /\ UNCHANGED <<targets, collectVars, consuming, tabVars, dpc>>

DescribeReturn ==
    /\ ~crashed
    /\ dpc = "send"
    /\ Len(described) = Len(DescribeDescs)
    /\ dpc' = "returned"
    /\ UNCHANGED <<targets, collectVars, consuming, tabVars, described>>

\* the steps of a goroutine whose device has no rows
TaskNoRows(t) ==
    \/ ConnectFail(t)
    \/ ConnectOk(t)
    \/ WalkEnd(t)
    \/ WalkFail(t)
    \/ SendUp(t)
    \/ TaskExit(t)

NextDescribe ==
    \/ DescribeCall
    \/ DescribeSend
    \/ DescribeReturn
    \/ CollectCall
    \/ CollectReturn
    \/ Receive
    \/ \E t \in Entries : TaskNoRows(t)

SpecDescribe == Init /\ [][NextDescribe]_vars

(***************************************************************************)
(* handlePduAsLabel on its own: any sequence of rows of the two label      *)
(* tables, with any byte string as value, applied to one label table.      *)
(***************************************************************************)
\* byte strings a label row may carry
LabelBytes == {"", "ge-0/0/0", "uplink"}

\* the label tables of collectMetrics
LabelTables == { k \in 1..NumTables : Tables[k].kind = "label" }

LabelRowPdus ==
    { Pdu(k, id, "OctetString", v) : k \in LabelTables, id \in RowIds, v \in LabelBytes }

\* the table of the row p
TableOf(p) == CHOOSE k \in LabelTables : Tables[k].oid = SubSeq(p.Name, 1, Len(p.Name) - 1)

\* handlePduAsLabel(index, p, s) with the index fetchInterfaceLabelFromOid got
\* for the table of p
RecordLabel(p) ==
    /\ before' = tbl
    /\ op' = [id |-> getId(p.Name), index |-> Tables[TableOf(p)].index, value |-> p.Value]
    /\ tbl' = StoreLabel(tbl, getId(p.Name), Tables[TableOf(p)].index, p.Value)
    /\ UNCHANGED <<targets, collectVars, consuming, descVars>>

InitLabels == Init /\ targets = <<>>

NextLabels == \E p \in LabelRowPdus : RecordLabel(p)

SpecLabels == InitLabels /\ [][NextLabels]_vars

(***************************************************************************)
(* Collect() with a caller that may stop receiving from the channel, and   *)
(* with fair scheduling: a goroutine that can take a step takes one (the   *)
(* Go scheduler runs every runnable goroutine; Connect() and Walk() return *)
(* after their timeouts at the latest), and the caller receives as long as *)
(* it has not stopped.                                                     *)
(***************************************************************************)
ConsumerStop ==
    /\ ~crashed
    /\ consuming
    /\ consuming' = FALSE
    /\ UNCHANGED <<targets, collectVars, descVars, tabVars>>

\* in this exploration the first device has one interface, the others have
\* none, and every row is well typed
LiveRowIds == {9}

LiveRowEntries == {1}

TaskLive(t) ==
    \/ TaskNoRows(t)
    \/ /\ t \in LiveRowEntries
       /\ \/ \E p \in { q \in LabelPdus(t) : getId(q.Name) \in LiveRowIds } : LabelRow(t, p)
          \/ \E p \in { q \in CounterPdus(t) : getId(q.Name) \in LiveRowIds } : CounterRow(t, p)

NextLive ==
    \/ CollectCall
    \/ CollectReturn
    \/ Receive
    \/ ConsumerStop
    \/ \E t \in Entries : TaskLive(t)

\* the entries of the longest target list
AllEntries == UNION { 1..Len(T) : T \in TargetLists }

Fairness ==
    /\ WF_vars(CollectReturn)
    /\ WF_vars(Receive)
    /\ \A t \in AllEntries : WF_vars(t \in Entries /\ TaskLive(t))

SpecLive == Init /\ [][NextLive]_vars /\ Fairness

(***************************************************************************)
(* Properties.                                                             *)
(***************************************************************************)
\* positions of the junos_up metrics / of the interface metrics in sent[t]
UpIdx(t) == { i \in 1..Len(sent[t]) : sent[t][i].desc = upDesc }
IfIdx(t) == { i \in 1..Len(sent[t]) : sent[t][i].desc # upDesc }

AllTables == [k \in 1..NumTables |-> k]

\* C1: at any time an entry has put at most one junos_up on the channel, it
\* carries the entry's address, and once Collect() has returned every entry
\* has put exactly one, whatever Connect() and the walks returned.
C1_OneUpPerEntry ==
    \A t \in Entries :
        /\ Cardinality(UpIdx(t)) <= 1
        /\ \A i \in UpIdx(t) : sent[t][i].labels = <<targets[t]>>
        /\ cpc = "returned" => Cardinality(UpIdx(t)) = 1

C1_Witness ==
    /\ cpc = "returned"
    /\ Len(targets) = 2
    /\ targets[1] = targets[2]
    /\ setup[1] = "failed"
    /\ setup[2] = "ok" /\ failed[2]
    /\ \A t \in Entries : Cardinality(UpIdx(t)) = 1

\* C2: when Connect() failed for an entry, no table is walked for it, it puts
\* no interface metric on the channel, and its only metric is junos_up = 0.
C2_SetupFailure ==
    \A t \in Entries :
        setup[t] = "failed" =>
            /\ walked[t] = <<>>
            /\ w[t] = 0
            /\ pc[t] \notin {"connect", "walk"}
            /\ IfIdx(t) = {}
            /\ \A i \in UpIdx(t) : sent[t][i].value = 0
            /\ pc[t] \in {"done", "exited"} => Len(sent[t]) = 1

C2_Witness ==
    \E t \in Entries :
        /\ setup[t] = "failed"
        /\ pc[t] = "exited"
        /\ sent[t] = <<[desc |-> upDesc, labels |-> <<targets[t]>>, value |-> 0]>>

\* C3: junos_up of an entry is 1 exactly when neither Connect() nor any walk
\* of the entry returned an error, and then all eight tables were walked; in
\* every other case it is 0.
C3_UpIffNoError ==
    \A t \in Entries : \A i \in UpIdx(t) :
        /\ sent[t][i].value \in {0, 1}
        /\ sent[t][i].value = 1 <=> ~failed[t]
        /\ sent[t][i].value = 1 => setup[t] = "ok" /\ walked[t] = AllTables

C3_Witness ==
    \E t \in Entries :
        /\ setup[t] = "ok"
        /\ failed[t]
        /\ walked[t] = AllTables
        /\ \E i \in UpIdx(t) : sent[t][i].value = 0

\* C4: a counter row whose row index has no entry in the label table puts an
\* interface metric with the labels ("", "", target) on the channel and
\* records no error.
C4_UnseenRowEmits ==
    [][\A t \in Entries : \A p \in CounterPdus(t) :
          (CounterRow(t, p) /\ getId(p.Name) \notin DOMAIN interfaceLabels[t]) =>
              /\ Len(sent'[t]) = Len(sent[t]) + 1
              /\ sent'[t][Len(sent'[t])].labels = <<"", "", targets[t]>>
              /\ err'[t] = err[t]]_vars

\* C5: a row whose value has another type than the table's rows never takes
\* the process down: no goroutine panics.
C5_NoCrash ==
    /\ ~crashed
    /\ \A t \in Entries : pc[t] # "panicked"

\* the value the metric of descriptor desc has for the raw value v
ExpectedValue(desc, v) ==
    IF desc \in {"junos_interface_receive_bytes", "junos_interface_transmit_bytes"}
    THEN v \div 8
    ELSE v

\* C6: every counter row (i, v) of table k puts exactly one interface metric
\* on the channel: descriptor of k, labels (name[i], description[i], target),
\* value v/8 for the two byte tables and v for the other four.
C6_EveryCounterRowEmits ==
    [][\A t \in Entries : \A p \in CounterPdus(t) :
          CounterRow(t, p) =>
              LET id == getId(p.Name)
                  tab == interfaceLabels[t]
                  name == IF id \in DOMAIN tab THEN tab[id][1] ELSE ""
                  description == IF id \in DOMAIN tab THEN tab[id][2] ELSE ""
              IN  sent'[t] = Append(sent[t],
                      [desc |-> Tables[w[t]].desc,
                       labels |-> <<name, description, targets[t]>>,
                       value |-> ExpectedValue(Tables[w[t]].desc, p.Value)])]_vars

\* C7: when Collect() has returned, every goroutine has ended after putting
\* its junos_up on the channel, and from then on no goroutine of that call
\* puts anything on the channel.
C7_ReturnAfterAllDone ==
    /\ [](cpc = "returned" =>
            \A t \in Entries : pc[t] = "exited" /\ UpIdx(t) # {})
    /\ [][cpc = "returned" /\ cpc' = "returned" => sent' = sent]_vars

C7_Witness ==
    /\ cpc = "returned"
    /\ Len(targets) = 2
    /\ \E t \in Entries : IfIdx(t) # {} /\ UpIdx(t) # {}

\* what entry y's goroutine owns
Local(y) == <<pc[y], w[y], interfaceLabels[y], err[y], conn[y], sent[y], failed[y]>>

\* the metric m of entry t carries t's address and only labels t's own
\* device reported
OwnLabels(t, m) ==
    /\ m.labels[Len(m.labels)] = targets[t]
    /\ m.desc # upDesc =>
          /\ m.labels[1] \in {"", DeviceLabels(targets[t])[1]}
          /\ m.labels[2] \in {"", DeviceLabels(targets[t])[2]}

\* C8: what an entry owns changes only by steps of its own goroutine (or by
\* the start of a call); its metrics carry only labels of its own device, its
\* label table holds only those, and its junos_up is 0 only if its own
\* Connect() or walks failed.
C8_NoInterference ==
    /\ [](\A y \in Entries :
            /\ \A i \in 1..Len(sent[y]) : OwnLabels(y, sent[y][i])
            /\ \A id \in DOMAIN interfaceLabels[y] :
                  /\ interfaceLabels[y][id][1] \in {"", DeviceLabels(targets[y])[1]}
                  /\ interfaceLabels[y][id][2] \in {"", DeviceLabels(targets[y])[2]}
            /\ \A i \in UpIdx(y) : sent[y][i].value = 0 <=> failed[y])
    /\ [][\A y \in Entries :
            Local(y)' # Local(y) => (Task(y) \/ CollectCall)]_vars

C8_Witness ==
    /\ Len(targets) = 2
    /\ targets[1] # targets[2]
    /\ setup[1] = "failed"
    /\ pc[2] = "exited"
    /\ ~failed[2]
    /\ \E i \in IfIdx(2) : sent[2][i].labels[1] = DeviceLabels(targets[2])[1]
    /\ \E i \in UpIdx(2) : sent[2][i].value = 1

\* C9: as long as the process lives, a goroutine waiting in Connect() or in a
\* walk can return from it, one about to send junos_up can send when the
\* channel has room, and one that has sent can end, whatever the positions
\* of the other goroutines; only the return of Collect() waits for all.
C9_NoTargetBlocksAnother ==
    ~crashed =>
        /\ \A y \in Entries :
              /\ pc[y] = "connect" => ENABLED ConnectOk(y) /\ ENABLED ConnectFail(y)
              /\ pc[y] = "walk" => ENABLED WalkEnd(y) /\ ENABLED WalkFail(y)
              /\ (pc[y] = "up" /\ CanSend) => ENABLED SendUp(y)
              /\ pc[y] = "done" => ENABLED TaskExit(y)
        /\ (\E x \in Entries : pc[x] # "exited") => ~ENABLED CollectReturn

C9_Witness ==
    /\ cpc = "wait"
    /\ \E x, y \in Entries :
          /\ x < y
          /\ pc[x] = "connect"
          /\ pc[y] = "exited"
          /\ UpIdx(y) # {}

\* C10: within a call Connect() is called once per entry and no table is
\* walked twice, whatever failed; a failed Connect() is not followed by
\* another attempt; every call starts each entry with an empty label table,
\* no error and nothing sent, and junos_up is 0 only for a failure of the
\* call it belongs to.
C10_NoRetryNoCache ==
    \A t \in Entries :
        /\ connects[t] <= 1
        /\ \A i, j \in 1..Len(walked[t]) : i # j => walked[t][i] # walked[t][j]
        /\ setup[t] = "failed" => pc[t] \in {"up", "done", "exited"}
        /\ pc[t] = "connect" =>
              /\ interfaceLabels[t] = NoLabels
              /\ err[t] = NoErr
              /\ sent[t] = <<>>
        /\ \A i \in UpIdx(t) : sent[t][i].value = 0 => failed[t]

C10_Witness ==
    /\ calls = 2
    /\ cpc = "returned"
    /\ \E t \in Entries :
          /\ ~failed[t]
          /\ IfIdx(t) # {}
          /\ \E i \in UpIdx(t) : sent[t][i].value = 1

\* the seven descriptors of init()
AllDescs ==
    { "junos_up",
      "junos_interface_receive_bytes", "junos_interface_transmit_bytes",
      "junos_interface_receive_errors", "junos_interface_transmit_errors",
      "junos_interface_receive_drops", "junos_interface_transmit_drops" }

\* C11: a Describe() call never sends a descriptor twice and sends only the
\* seven descriptors; when it has returned it has sent each of the seven
\* once, whatever the target list is and whatever Collect() did meanwhile.
C11_DescribeFixedSet ==
    /\ \A i, j \in 1..Len(described) : i # j => described[i] # described[j]
    /\ \A i \in 1..Len(described) : described[i] \in AllDescs
    /\ dpc = "returned" =>
          /\ Len(described) = 7
          /\ { described[i] : i \in 1..Len(described) } = AllDescs

C11_Witness ==
    /\ dpc = "returned"
    /\ Len(targets) = 2
    /\ calls = 2
    /\ cpc = "returned"
    /\ \E t \in Entries : failed[t]

\* a is a prefix of b
IsPrefix(a, b) == Len(a) <= Len(b) /\ \A i \in 1..Len(a) : a[i] = b[i]

\* C12: once Connect() succeeded, a walk that returns an error is followed by
\* the walk of the next table, a goroutine that left collectMetrics has
\* walked all eight tables, and within a call what it has sent stays sent.
C12_WalkFailureDoesNotAbort ==
    /\ [](\A t \in Entries :
            (setup[t] = "ok" /\ pc[t] \in {"up", "done", "exited"}) =>
                walked[t] = AllTables)
    /\ [][\A t \in Entries :
            /\ (WalkFail(t) /\ w[t] < NumTables) =>
                  /\ pc'[t] = "walk"
                  /\ w'[t] = w[t] + 1
                  /\ walked'[t] = Append(walked[t], w[t] + 1)
            /\ calls' = calls => IsPrefix(sent[t], sent'[t])]_vars

C12_Witness ==
    \E t \in Entries :
        /\ pc[t] = "exited"
        /\ setup[t] = "ok"
        /\ err[t] = WalkErr
        /\ walked[t] = AllTables
        /\ IfIdx(t) # {}

\* C13: a counter row for which no metric can be built sets the sticky
\* error, and the goroutine stays in the walk of the same table, so that the
\* remaining rows of that walk are still delivered and emit their metrics.
C13_RowFailureKeepsWalk ==
    [][\A t \in Entries : \A p \in CounterPdus(t) :
          (CounterRow(t, p) /\ sent'[t] = sent[t]) =>
              /\ err'[t] # NoErr
              /\ pc'[t] = "walk"
              /\ w'[t] = w[t]]_vars

\* C14: within a call the sticky error of an entry is set exactly when the
\* first Connect() or walk of the entry fails, to the error of that failure,
\* and once set it never changes, whatever fails or succeeds afterwards.
C14_FirstErrorWins ==
    /\ [](\A t \in Entries : failed[t] <=> err[t] # NoErr)
    /\ [][\A t \in Entries :
            calls' = calls =>
                /\ err[t] # NoErr => err'[t] = err[t]
                /\ (~failed[t] /\ failed'[t]) =>
                      /\ ConnectFail(t) => err'[t] = ConnectErr
                      /\ WalkFail(t) => err'[t] = WalkErr
                      /\ (\E p \in CounterPdus(t) : CounterRow(t, p)) =>
                            err'[t] = CardinalityErr
                      /\ err'[t] \in {ConnectErr, WalkErr, CardinalityErr}]_vars

\* a walk failed first and a later counter row could not be emitted (the one
\* row delivered left no label entry and no metric): the first error is kept
C14_Witness ==
    /\ Len(targets) = 1
    /\ ~crashed
    /\ pc[1] = "exited"
    /\ rows = 1
    /\ interfaceLabels[1] = NoLabels
    /\ IfIdx(1) = {}
    /\ err[1] = WalkErr

\* C15: Conn.Close() is called at most once per entry and call; after a
\* successful Connect() the connection is open during the walks and has been
\* closed exactly once when the goroutine has left collectMetrics, by return
\* or by panic; after a failed Connect() there is no connection, no Close(),
\* no walk and no interface metric.
C15_SessionReleasedOnce ==
    \A t \in Entries :
        /\ closes[t] <= 1
        /\ pc[t] = "walk" => setup[t] = "ok" /\ conn[t] = "open" /\ closes[t] = 0
        /\ (setup[t] = "ok" /\ pc[t] \in {"up", "done", "exited", "panicked"}) =>
              conn[t] = "closed" /\ closes[t] = 1
        /\ setup[t] = "failed" =>
              conn[t] = "nil" /\ closes[t] = 0 /\ walked[t] = <<>> /\ IfIdx(t) = {}
        /\ IfIdx(t) # {} => setup[t] = "ok"

C15_Witness ==
    \E t \in Entries :
        /\ setup[t] = "ok"
        /\ failed[t]
        /\ pc[t] = "exited"
        /\ conn[t] = "closed"
        /\ closes[t] = 1

\* the order of the walks: name, description, receive bytes, transmit bytes,
\* receive drops, receive errors, transmit drops, transmit errors
WalkOrder == <<
    <<1,3,6,1,2,1,31,1,1,1,1>>, <<1,3,6,1,2,1,31,1,1,1,18>>,
    <<1,3,6,1,2,1,2,2,1,10>>, <<1,3,6,1,2,1,2,2,1,16>>,
    <<1,3,6,1,2,1,2,2,1,13>>, <<1,3,6,1,2,1,2,2,1,14>>,
    <<1,3,6,1,2,1,2,2,1,19>>, <<1,3,6,1,2,1,2,2,1,20>> >>

\* C16: the tables an entry's goroutine has started to walk are a prefix of
\* the fixed order, the walk in progress is the last one started (all earlier
\* ones have returned), and a counter table is walked, and an interface
\* metric sent, only after both label walks were started and have returned.
C16_WalksSequential ==
    \A t \in Entries :
        /\ IsPrefix([i \in 1..Len(walked[t]) |-> Tables[walked[t][i]].oid], WalkOrder)
        /\ pc[t] = "walk" => walked[t] # <<>> /\ w[t] = walked[t][Len(walked[t])]
        /\ (pc[t] = "walk" /\ Tables[w[t]].kind = "metric") => Len(walked[t]) >= 3
        /\ IfIdx(t) # {} => Len(walked[t]) >= 3

C16_Witness ==
    \E t \in Entries :
        /\ pc[t] = "exited"
        /\ walked[t] = AllTables
        /\ IfIdx(t) # {}

\* C17: after a label write (r, d, v) the table has the rows it had plus r,
\* slot d of r holds v, the other slot of r holds what it held (the empty
\* string if r is new), every other row is as it was, and every row has
\* exactly two slots.
C17_RecordLabelFrame ==
    /\ \A i \in DOMAIN tbl : DOMAIN tbl[i] = 1..2
    /\ op # NoWrite =>
          LET r == op.id
              d == op.index + 1
          IN  /\ DOMAIN tbl = (DOMAIN before) \cup {r}
              /\ tbl[r][d] = op.value
              /\ \A j \in (1..2) \ {d} :
                    tbl[r][j] = IF r \in DOMAIN before THEN before[r][j] ELSE ""
              /\ \A i \in (DOMAIN before) \ {r} : tbl[i] = before[i]

C17_Witness ==
    /\ op = [id |-> 9, index |-> 1, value |-> "uplink"]
    /\ DOMAIN before = {7, 9}
    /\ before[9] = <<"ge-0/0/0", "">>
    /\ before[7] = <<"uplink", "ge-0/0/0">>
    /\ tbl[9] = <<"ge-0/0/0", "uplink">>

\* the label writes
Writes == [id : RowIds, index : {0, 1}, value : LabelBytes]
ApplyWrite(T, a) == StoreLabel(T, a.id, a.index, a.value)

\* C18: from every label table, two writes to different (row, slot) pairs
\* give the same table in either order and a write done twice gives the same
\* table as done once; a step that repeats the last write leaves the table
\* as it is.
C18_WritesCommuteIdempotent ==
    /\ [](\A a, b \in Writes :
            /\ (a.id # b.id \/ a.index # b.index) =>
                  ApplyWrite(ApplyWrite(tbl, a), b) = ApplyWrite(ApplyWrite(tbl, b), a)
            /\ ApplyWrite(ApplyWrite(tbl, a), a) = ApplyWrite(tbl, a))
    /\ [][(op # NoWrite /\ op' = op /\ before' = tbl) => tbl' = tbl]_vars

\* the description was written before the name, and the last write was
\* repeated
C18_Witness ==
    /\ op = [id |-> 9, index |-> 0, value |-> "ge-0/0/0"]
    /\ before = tbl
    /\ tbl[9] = <<"ge-0/0/0", "uplink">>

\* C19: junos_up is the last metric an entry's goroutine puts on the channel
\* in a call: it comes after all its interface metrics, nothing follows it,
\* and the connection of the entry is not open when it is sent (closed, or
\* never opened).
C19_UpIsLast ==
    /\ [](\A t \in Entries :
            /\ pc[t] = "up" => conn[t] # "open"
            /\ UpIdx(t) # {} => UpIdx(t) = {Len(sent[t])} /\ conn[t] # "open")
    /\ [][\A t \in Entries :
            (UpIdx(t) # {} /\ calls' = calls) => sent'[t] = sent[t]]_vars

C19_Witness ==
    \E t \in Entries :
        /\ pc[t] = "exited"
        /\ IfIdx(t) # {}
        /\ UpIdx(t) = {Len(sent[t])}
        /\ conn[t] = "closed"

\* the goroutine of t waits to send junos_up on a full channel nobody
\* receives from
Blocked(t) ==
    /\ ~consuming
    /\ cpc = "wait"
    /\ pc[t] = "up"
    /\ ~CanSend

\* C20: a Collect() call returns, unless the process died or the caller
\* stopped receiving; and once a goroutine waits to send on a full channel
\* whose caller has stopped receiving, it waits forever and Collect() does
\* not return.
C20_CollectReturns ==
    /\ (cpc = "wait") ~> (cpc = "returned" \/ crashed \/ ~consuming)
    /\ [][\A t \in Entries : Blocked(t) => Blocked(t)']_vars

\* a first call has returned; in the second the caller stopped receiving and
\* a goroutine waits to send
C20_Witness ==
    /\ calls = 2
    /\ \E t \in Entries : Blocked(t) /\ IfIdx(t) # {}

====
